---- MODULE Spec2Model ----
(***************************************************************************)
(* DevConvert (src/app/page.tsx): the converter page's state, its handlers *)
(* and the per-format text rewrites of handleConvert.                      *)
(*                                                                         *)
(* JavaScript strings are TLA+ strings; the rewrites work on them          *)
(* character by character with Len, SubSeq and \o, as the regular          *)
(* expressions and String methods of the source do.                        *)
(***************************************************************************)
EXTENDS Integers, Sequences, FiniteSets, Bags, TLC

VARIABLES targetLang, inputCode, outputCode, user, history, db, inflight, last

vars == <<targetLang, inputCode, outputCode, user, history, db, inflight, last>>

(***************************************************************************)
(* String primitives (String.prototype.indexOf / replace / trim / split)   *)
(***************************************************************************)
CharAt(s, i) == SubSeq(s, i, i)

Suffix(s, i) == SubSeq(s, i, Len(s))

StartsAt(s, p, i) == i >= 1 /\ i + Len(p) - 1 <= Len(s) /\ SubSeq(s, i, i + Len(p) - 1) = p

\* the least element of a set of positions, 0 for the empty set
First(S) == IF S = {} THEN 0 ELSE CHOOSE k \in S : \A j \in S : k <= j

\* the greatest element of a set of positions, 0 for the empty set
Last(S) == IF S = {} THEN 0 ELSE CHOOSE k \in S : \A j \in S : k >= j

\* s.indexOf(p, from), 1-based; 0 when p does not occur at or after from
IndexFrom(s, p, i) ==
  First({k \in i..(Len(s) - Len(p) + 1) : SubSeq(s, k, k + Len(p) - 1) = p})

Contains(s, p) == IndexFrom(s, p, 1) # 0

\* number of non-overlapping occurrences of p in s, scanning left to right
RECURSIVE CountOcc(_, _)
CountOcc(s, p) ==
  LET i == IndexFrom(s, p, 1)
  IN IF i = 0 THEN 0 ELSE 1 + CountOcc(Suffix(s, i + Len(p)), p)

\* s.replace(p, r) with a string pattern, or a literal regex without /g
ReplaceFirst(s, p, r) ==
  LET i == IndexFrom(s, p, 1)
  IN IF i = 0 THEN s ELSE SubSeq(s, 1, i - 1) \o r \o Suffix(s, i + Len(p))

\* s.replace(/p/g, r) for a literal p
RECURSIVE ReplaceAll(_, _, _)
ReplaceAll(s, p, r) ==
  LET i == IndexFrom(s, p, 1)
  IN IF i = 0 THEN s
     ELSE SubSeq(s, 1, i - 1) \o r \o ReplaceAll(Suffix(s, i + Len(p)), p, r)

WhiteSpace == {" ", "\t", "\n", "\r", "\f"}

\* a trim that strips nothing
TrimNothing(s) == s

\* String.prototype.trim: from the first to the last non-blank character
Trim(s) ==
  LET solid == {k \in 1..Len(s) : CharAt(s, k) \notin WhiteSpace}
  IN IF solid = {} THEN "" ELSE SubSeq(s, First(solid), Last(solid))

\* s.split(sep) for a one-character separator: always at least one piece
RECURSIVE Split(_, _)
Split(s, sep) ==
  LET i == IndexFrom(s, sep, 1)
  IN IF i = 0 THEN <<s>>
     ELSE <<SubSeq(s, 1, i - 1)>> \o Split(Suffix(s, i + 1), sep)

LowerCase == "abcdefghijklmnopqrstuvwxyz"
UpperCase == "ABCDEFGHIJKLMNOPQRSTUVWXYZ"
Digits == "0123456789"

IsLower(c) == Len(c) = 1 /\ Contains(LowerCase, c)
IsDigit(c) == Len(c) = 1 /\ Contains(Digits, c)

\* c.toUpperCase() for one character
ToUpper(c) ==
  LET i == IndexFrom(LowerCase, c, 1)
  IN IF Len(c) = 1 /\ i # 0 THEN CharAt(UpperCase, i) ELSE c

\* s.replace(/-([a-z])/g, g => g[1].toUpperCase())
RECURSIVE CamelCase(_)
CamelCase(s) ==
  LET i == First({k \in 1..(Len(s) - 1) : CharAt(s, k) = "-" /\ IsLower(CharAt(s, k + 1))})
  IN IF i = 0 THEN s
     ELSE SubSeq(s, 1, i - 1) \o ToUpper(CharAt(s, i + 1)) \o CamelCase(Suffix(s, i + 2))

RECURSIVE Join(_, _)
Join(parts, sep) ==
  IF Len(parts) = 0 THEN ""
  ELSE IF Len(parts) = 1 THEN parts[1]
  ELSE parts[1] \o sep \o Join(Tail(parts), sep)

(***************************************************************************)
(* JavaScript objects: own string-keyed properties in property order       *)
(* (array-index keys first, ascending; the other keys in insertion order). *)
(* An object is a sequence of <<key, value>> pairs.                        *)
(***************************************************************************)
AllDigits(s) == \A k \in 1..Len(s) : IsDigit(CharAt(s, k))

\* lexicographic order on digit strings of equal length
RECURSIVE DigitsLess(_, _)
DigitsLess(a, b) ==
  IF Len(a) = 0 THEN FALSE
  ELSE LET x == IndexFrom(Digits, CharAt(a, 1), 1)
           y == IndexFrom(Digits, CharAt(b, 1), 1)
       IN IF x # y THEN x < y ELSE DigitsLess(Suffix(a, 2), Suffix(b, 2))

\* numeric order on canonical (no leading zero) digit strings
NumLess(a, b) == Len(a) < Len(b) \/ (Len(a) = Len(b) /\ DigitsLess(a, b))

MaxArrayIndex == "4294967294"

\* a canonical array index: "0", "1", ... "4294967294"
IsArrayIndex(k) ==
  /\ Len(k) >= 1
  /\ AllDigits(k)
  /\ (Len(k) = 1 \/ CharAt(k, 1) # "0")
  /\ ~NumLess(MaxArrayIndex, k)

HasKey(obj, k) == \E n \in 1..Len(obj) : obj[n][1] = k

\* number of leading properties that stay in front of a new key k
RECURSIVE InsertPos(_, _, _)
InsertPos(obj, k, n) ==
  IF n > Len(obj) THEN n
  ELSE IF IsArrayIndex(obj[n][1]) /\ (~IsArrayIndex(k) \/ NumLess(obj[n][1], k))
       THEN InsertPos(obj, k, n + 1)
  ELSE IF IsArrayIndex(k) THEN n
  ELSE Len(obj) + 1

\* obj[k] = v
ObjSet(obj, k, v) ==
  IF HasKey(obj, k)
  THEN [n \in 1..Len(obj) |-> IF obj[n][1] = k THEN <<k, v>> ELSE obj[n]]
  ELSE LET p == InsertPos(obj, k, 1)
       IN SubSeq(obj, 1, p - 1) \o <<<<k, v>>>> \o SubSeq(obj, p, Len(obj))

(***************************************************************************)
(* JSON.stringify(obj, null, 2) for an object of string values             *)
(***************************************************************************)
\* the JSON escape of one character (QuoteJSONString)
JsonEscapeChar(c) ==
  CASE c = "\"" -> "\\\""
    [] c = "\\" -> "\\\\"
    [] c = "\n" -> "\\n"
    [] c = "\t" -> "\\t"
    [] c = "\r" -> "\\r"
    [] c = "\f" -> "\\f"
    [] OTHER -> c

RECURSIVE JsonEscape(_)
JsonEscape(s) ==
  LET i == First({k \in 1..Len(s) : JsonEscapeChar(CharAt(s, k)) # CharAt(s, k)})
  IN IF i = 0 THEN s
     ELSE SubSeq(s, 1, i - 1) \o JsonEscapeChar(CharAt(s, i)) \o JsonEscape(Suffix(s, i + 1))

JsonQuote(s) == "\"" \o JsonEscape(s) \o "\""

JsonStringify(obj) ==
  IF Len(obj) = 0 THEN "{}"
  ELSE "{\n"
       \o Join([n \in 1..Len(obj) |->
                  "  " \o JsonQuote(obj[n][1]) \o ": " \o JsonQuote(obj[n][2])], ",\n")
       \o "\n}"

(***************************************************************************)
(* JSON.parse: a value is [t, txt, m]: t its kind, txt the text of a       *)
(* string, m the members of an object (<<key, value>> pairs in property    *)
(* order) or the elements of an array.                                     *)
(***************************************************************************)
JNull == [t |-> "null", txt |-> "", m |-> <<>>]
JBool == [t |-> "boolean", txt |-> "", m |-> <<>>]
JNum == [t |-> "number", txt |-> "", m |-> <<>>]
JStr(x) == [t |-> "string", txt |-> x, m |-> <<>>]
JObj(members) == [t |-> "object", txt |-> "", m |-> members]
JArr(elements) == [t |-> "array", txt |-> "", m |-> elements]

\* a SyntaxError thrown by JSON.parse
ParseFail == [ok |-> FALSE, v |-> JNull, i |-> 0]
ParseOk(val, next) == [ok |-> TRUE, v |-> val, i |-> next]

JsonWs == {" ", "\t", "\n", "\r"}
HexDigits == "0123456789abcdefABCDEF"

\* the first position at or after i that holds no JSON white space
SkipWs(s, i) ==
  LET k == First({n \in i..Len(s) : CharAt(s, n) \notin JsonWs})
  IN IF k = 0 THEN Len(s) + 1 ELSE k

\* the first position at or after i that holds no digit
SkipDigits(s, i) ==
  LET k == First({n \in i..Len(s) : ~IsDigit(CharAt(s, n))})
  IN IF k = 0 THEN Len(s) + 1 ELSE k

\* the exponent part of a number whose digits and fraction end before c
NumberExp(s, c, d) ==
  IF ~(StartsAt(s, "e", c) \/ StartsAt(s, "E", c)) THEN ParseOk(JNum, c)
  ELSE IF SkipDigits(s, d) = d THEN ParseFail
  ELSE ParseOk(JNum, SkipDigits(s, d))

\* the fraction part of a number whose integer digits end before b
NumberFrac(s, b, c) ==
  IF StartsAt(s, ".", b) /\ c = b + 1 THEN ParseFail
  ELSE NumberExp(s, c, IF StartsAt(s, "+", c + 1) \/ StartsAt(s, "-", c + 1)
                       THEN c + 2 ELSE c + 1)

\* the integer part of a number whose digits start at a and end before b
NumberInt(s, a, b) ==
  IF b = a THEN ParseFail
  ELSE NumberFrac(s, b, IF StartsAt(s, ".", b) THEN SkipDigits(s, b + 1) ELSE b)

\* the digits of a number after its sign
NumberDigits(s, a) ==
  NumberInt(s, a, IF StartsAt(s, "0", a) THEN a + 1 ELSE SkipDigits(s, a))

\* -? (0 | [1-9][0-9]*) (. [0-9]+)? ([eE] [+-]? [0-9]+)?
ParseNumber(s, i) == NumberDigits(s, IF StartsAt(s, "-", i) THEN i + 1 ELSE i)

IsHex4(s, i) ==
  i + 3 <= Len(s) /\ \A n \in i..(i + 3) : Contains(HexDigits, CharAt(s, n))

\* the characters of a string literal after its opening quote.  The escapes
\* \b and \uXXXX are accepted; the character they denote has no TLA+ literal
\* and is kept in its escaped form.
RECURSIVE ParseStringBody(_, _, _)

\* the escape sequence at position i of a string literal
StringEscape(s, i, acc, e) ==
  CASE e \in {"\"", "\\", "/"} -> ParseStringBody(s, i + 2, acc \o e)
    [] e = "n" -> ParseStringBody(s, i + 2, acc \o "\n")
    [] e = "t" -> ParseStringBody(s, i + 2, acc \o "\t")
    [] e = "r" -> ParseStringBody(s, i + 2, acc \o "\r")
    [] e = "f" -> ParseStringBody(s, i + 2, acc \o "\f")
    [] e = "b" -> ParseStringBody(s, i + 2, acc \o "\\b")
    [] e = "u" /\ IsHex4(s, i + 2) -> ParseStringBody(s, i + 6, acc \o SubSeq(s, i, i + 5))
    [] OTHER -> ParseFail

\* the string literal continues up to i, its next quote, backslash or
\* control character
StringStop(s, i, acc, c) ==
  IF c = "\"" THEN ParseOk(JStr(acc), i + 1)
  ELSE IF c = "\\" /\ i + 1 <= Len(s) THEN StringEscape(s, i, acc, CharAt(s, i + 1))
  ELSE ParseFail

StringChunk(s, i0, acc0, i) ==
  IF i = 0 THEN ParseFail
  ELSE StringStop(s, i, acc0 \o SubSeq(s, i0, i - 1), CharAt(s, i))

ParseStringBody(s, i0, acc0) ==
  StringChunk(s, i0, acc0,
              First({n \in i0..Len(s) : CharAt(s, n) \in {"\"", "\\", "\n", "\t", "\r", "\f"}}))

RECURSIVE ParseValue(_, _)
RECURSIVE ParseMembers(_, _, _)
RECURSIVE ParseElements(_, _, _)

\* the value that starts at i, a position that holds no white space
ValueAt(s, i, c) ==
  IF i > Len(s) THEN ParseFail
  ELSE IF c = "{" THEN ParseMembers(s, SkipWs(s, i + 1), <<>>)
  ELSE IF c = "[" THEN ParseElements(s, SkipWs(s, i + 1), <<>>)
  ELSE IF c = "\"" THEN ParseStringBody(s, i + 1, "")
  ELSE IF StartsAt(s, "true", i) THEN ParseOk(JBool, i + 4)
  ELSE IF StartsAt(s, "false", i) THEN ParseOk(JBool, i + 5)
  ELSE IF StartsAt(s, "null", i) THEN ParseOk(JNull, i + 4)
  ELSE IF c = "-" \/ IsDigit(c) THEN ParseNumber(s, i)
  ELSE ParseFail

ValueFrom(s, i) == ValueAt(s, i, IF i > Len(s) THEN "" ELSE CharAt(s, i))

ParseValue(s, i0) == ValueFrom(s, SkipWs(s, i0))

\* after a member: a comma and the next member, or the closing brace
MemberEnd(s, obj, d) ==
  IF StartsAt(s, ",", d) /\ StartsAt(s, "\"", SkipWs(s, d + 1))
  THEN ParseMembers(s, SkipWs(s, d + 1), obj)
  ELSE IF StartsAt(s, "}", d) THEN ParseOk(JObj(obj), d + 1)
  ELSE ParseFail

\* a member's value v after its key k
MemberValue(s, obj, k, v) ==
  IF ~v.ok THEN ParseFail
  ELSE MemberEnd(s, ObjSet(obj, k.v.txt, v.v), SkipWs(s, v.i))

\* the colon at c after a member's key k
MemberColon(s, obj, k, c) ==
  IF ~StartsAt(s, ":", c) THEN ParseFail
  ELSE MemberValue(s, obj, k, ParseValue(s, c + 1))

MemberKey(s, obj, k) ==
  IF ~k.ok THEN ParseFail ELSE MemberColon(s, obj, k, SkipWs(s, k.i))

\* the members of an object after its opening brace, i at the first key
\* or at the closing brace of an empty object
ParseMembers(s, i, obj) ==
  IF StartsAt(s, "}", i) /\ Len(obj) = 0 THEN ParseOk(JObj(obj), i + 1)
  ELSE IF ~StartsAt(s, "\"", i) THEN ParseFail
  ELSE MemberKey(s, obj, ParseStringBody(s, i + 1, ""))

\* after an element: a comma and the next element, or the closing bracket
ElementEnd(s, arr, d) ==
  IF StartsAt(s, ",", d) THEN ParseElements(s, SkipWs(s, d + 1), arr)
  ELSE IF StartsAt(s, "]", d) THEN ParseOk(JArr(arr), d + 1)
  ELSE ParseFail

ElementValue(s, arr, v) ==
  IF ~v.ok THEN ParseFail ELSE ElementEnd(s, Append(arr, v.v), SkipWs(s, v.i))

\* the elements of an array after its opening bracket, i at the first
\* element or at the closing bracket of an empty array
ParseElements(s, i, arr) ==
  IF StartsAt(s, "]", i) /\ Len(arr) = 0 THEN ParseOk(JArr(arr), i + 1)
  ELSE ElementValue(s, arr, ParseValue(s, i))

\* the text ends after the value r
WholeText(s, r) == IF r.ok /\ SkipWs(s, r.i) > Len(s) THEN r ELSE ParseFail

\* JSON.parse(s): ok is FALSE when it throws
JsonParse(s) == WholeText(s, ParseValue(s, 1))


(***************************************************************************)
(* The registry: placeholders and the menu                                 *)
(***************************************************************************)
PlaceholderIds ==
  {"jsx", "svg_tailwind", "html_jsx", "tailwind", "css_obj", "typescript", "zod", "typebox", "mongoose", "sql", "curl_fetch"}

\* placeholders[id].input
PlaceholderInput(id) ==
  CASE id = "jsx" ->
       "<svg width=\"100\" height=\"100\">\n  <circle cx=\"50\" cy=\"50\" r=\"40\" stroke=\"green\" stroke-width=\"4\" fill=\"yellow\" />\n</svg>"
    [] id = "svg_tailwind" ->
       "<svg width=\"24\" height=\"24\" viewBox=\"0 0 24 24\" fill=\"none\" stroke=\"#000\">\n  <path d=\"M5 12h14M12 5l7 7-7 7\" stroke-width=\"2\" stroke-linecap=\"round\" stroke-linejoin=\"round\"/>\n</svg>"
    [] id = "html_jsx" ->
       "<div class=\"container\" for=\"username\">\n  <label>Username</label>\n  <input type=\"text\" id=\"username\" />\n</div>"
    [] id = "tailwind" ->
       ".btn {\n  background-color: #3b82f6;\n  padding: 0.5rem 1rem;\n  border-radius: 0.25rem;\n}"
    [] id = "css_obj" ->
       "background-color: #ffffff;\nmargin-top: 20px;\nfont-size: 1rem;"
    [] id = "typescript" ->
       "{\n  \"id\": 1,\n  \"name\": \"John Doe\",\n  \"isActive\": true\n}"
    [] id = "zod" ->
       "{\n  \"username\": \"dev_user\",\n  \"age\": 25\n}"
    [] id = "typebox" ->
       "{\n  \"status\": \"success\",\n  \"count\": 10\n}"
    [] id = "mongoose" ->
       "{\n  \"title\": \"Post\",\n  \"views\": 100\n}"
    [] id = "sql" ->
       "{\n  \"id\": 1,\n  \"username\": \"alice\"\n}"
    [] id = "curl_fetch" ->
       "curl 'https://api.example.com/data' -H 'Authorization: Bearer 123'"

\* placeholders[id].output
PlaceholderOutput(id) ==
  CASE id = "jsx" ->
       "export const IconComponent = (props) => (\n  <svg width=\"100\" height=\"100\" {...props}>\n    <circle cx=\"50\" cy=\"50\" r=\"40\" stroke=\"green\" strokeWidth=\"4\" fill=\"yellow\" />\n  </svg>\n);"
    [] id = "svg_tailwind" ->
       "export const Icon = ({ className = \"w-6 h-6\" }) => (\n  <svg className={className} viewBox=\"0 0 24 24\" fill=\"none\" stroke=\"currentColor\">\n    <path d=\"M5 12h14M12 5l7 7-7 7\" strokeWidth={2} strokeLinecap=\"round\" strokeLinejoin=\"round\"/>\n  </svg>\n);"
    [] id = "html_jsx" ->
       "<div className=\"container\" htmlFor=\"username\">\n  <label>Username</label>\n  <input type=\"text\" id=\"username\" />\n</div>"
    [] id = "tailwind" ->
       "bg-blue-500 px-4 py-2 rounded"
    [] id = "css_obj" ->
       "{\n  backgroundColor: '#ffffff',\n  marginTop: '20px',\n  fontSize: '1rem'\n}"
    [] id = "typescript" ->
       "interface RootObject {\n  id: number;\n  name: string;\n  isActive: boolean;\n}"
    [] id = "zod" ->
       "const schema = z.object({\n  username: z.string(),\n  age: z.number()\n})"
    [] id = "typebox" ->
       "const T = Type.Object({\n  status: Type.String(),\n  count: Type.Number()\n})"
    [] id = "mongoose" ->
       "const PostSchema = new Schema({\n  title: String,\n  views: Number\n})"
    [] id = "sql" ->
       "CREATE TABLE users (\n  id INT,\n  username VARCHAR(255)\n);"
    [] id = "curl_fetch" ->
       "fetch('https://api.example.com/data', {\n  headers: {\n    'Authorization': 'Bearer 123'\n  }\n})"

\* categories: name and languages (<<id, label>>) in declaration order
categories ==
  << [name |-> "SVG",
      languages |-> << <<"jsx", "to JSX">>, <<"svg_tailwind", "to Tailwind JSX">> >>],
     [name |-> "HTML",
      languages |-> << <<"html_jsx", "to JSX">> >>],
     [name |-> "CSS",
      languages |-> << <<"tailwind", "to Tailwind">>, <<"css_obj", "to JS Object">> >>],
     [name |-> "JSON",
      languages |-> << <<"typescript", "to TypeScript">>, <<"zod", "to Zod">>,
                       <<"typebox", "to TypeBox">>, <<"mongoose", "to Mongoose Schema">>,
                       <<"sql", "to MySQL">>, <<"jsdoc", "to JSDoc">>,
                       <<"graphql", "to GraphQL">> >>],
     [name |-> "Network",
      languages |-> << <<"curl_fetch", "Curl to Fetch">> >>] >>

\* the ids the menu offers
MenuIds ==
  UNION {{categories[c].languages[l][1] : l \in 1..Len(categories[c].languages)} :
           c \in 1..Len(categories)}

\* a find that compares the label with the id
RECURSIVE FindLangByLabel(_, _, _)
FindLangByLabel(languages, id, l) ==
  IF l > Len(languages) THEN 0
  ELSE IF languages[l][2] = id THEN l
  ELSE FindLangByLabel(languages, id, l + 1)

\* cat.languages.find(l => l.id === id): the index of the first entry with
\* that id, 0 for undefined
RECURSIVE FindLang(_, _, _)
FindLang(languages, id, l) ==
  IF l > Len(languages) THEN 0
  ELSE IF languages[l][1] = id THEN l
  ELSE FindLang(languages, id, l + 1)

\* the for loop of getCurrentConversionInfo from category c on
RECURSIVE InfoFrom(_, _)
InfoFrom(id, c) ==
  IF c > Len(categories)
  THEN [category |-> categories[1].name, label |-> categories[1].languages[1][2]]
  ELSE LET l == FindLang(categories[c].languages, id, 1)
       IN IF l # 0
          THEN [category |-> categories[c].name, label |-> categories[c].languages[l][2]]
          ELSE InfoFrom(id, c + 1)

getCurrentConversionInfo == InfoFrom(targetLang, 1)

(***************************************************************************)
(* The conversions of handleConvert                                        *)
(***************************************************************************)
\* the leftmost match of /NAME="[^"]*"/ in s as <<first, last>>, <<0, 0>>
\* when there is none
AttrMatch(s, name) ==
  LET p == name \o "=\""
      i == IndexFrom(s, p, 1)
      j == IF i = 0 THEN 0 ELSE IndexFrom(s, "\"", i + Len(p))
  IN IF i = 0 \/ j = 0 THEN <<0, 0>> ELSE <<i, j>>

\* s.replace(/NAME="[^"]*"/, r)
ReplaceAttrFirst(s, name, r) ==
  LET m == AttrMatch(s, name)
  IN IF m[1] = 0 THEN s ELSE SubSeq(s, 1, m[1] - 1) \o r \o Suffix(s, m[2] + 1)

\* s.replace(/style="([^"]*)"/g, (match, p1) => `style={{${camelCase}}}`)
RECURSIVE ReplaceStyle(_)
ReplaceStyle(s) ==
  LET m == AttrMatch(s, "style")
  IN IF m[1] = 0 THEN s
     ELSE SubSeq(s, 1, m[1] - 1)
          \o "style={{" \o CamelCase(SubSeq(s, m[1] + 7, m[2] - 1)) \o "}}"
          \o ReplaceStyle(Suffix(s, m[2] + 1))

\* the svg_tailwind branch
SvgTailwind(cleanInput) ==
  LET r1 == ReplaceAttrFirst(cleanInput, "width", "className={className}")
      r2 == ReplaceAttrFirst(r1, "height", "")
      r3 == ReplaceAttrFirst(r2, "stroke", "stroke=\"currentColor\"")
      r4 == ReplaceAttrFirst(r3, "fill", "fill=\"none\"")
      r5 == ReplaceAll(r4, "stroke-width=", "strokeWidth=")
      r6 == ReplaceAll(r5, "stroke-linecap=", "strokeLinecap=")
      r7 == ReplaceAll(r6, "stroke-linejoin=", "strokeLinejoin=")
  IN "export const Icon = ({ className = \"w-6 h-6\" }) => (\n  " \o r7 \o "\n);"

\* the shared rewrites with a class pattern that stops at its first match
HtmlJsxFirstClass(cleanInput) ==
  ReplaceStyle(ReplaceAll(ReplaceFirst(cleanInput, "class=", "className="),
                          "for=", "htmlFor="))

\* the rewrites shared by html_jsx and jsx
HtmlJsx(cleanInput) ==
  ReplaceStyle(ReplaceAll(ReplaceAll(cleanInput, "class=", "className="),
                          "for=", "htmlFor="))

\* the jsx branch: the shared rewrites, wrapped in the component template
SvgJsx(cleanInput) ==
  "export const IconComponent = (props) => (\n  "
  \o ReplaceFirst(HtmlJsx(cleanInput), "<svg", "<svg {...props}")
  \o "\n);"

\* the leftmost match of /q([^q]+)q/ at or after i as <<first, last>>
RECURSIVE QuotedFrom(_, _, _)
QuotedFrom(s, q, i) ==
  LET a == IndexFrom(s, q, i)
      b == IF a = 0 THEN 0 ELSE IndexFrom(s, q, a + 1)
  IN IF a = 0 \/ b = 0 THEN <<0, 0>>
     ELSE IF b = a + 1 THEN QuotedFrom(s, q, a + 1)
     ELSE <<a, b>>

FallbackUrl == "https://api.example.com"

\* cleanInput.match(/'([^']+)'/) || cleanInput.match(/"([^"]+)"/), then [1]
CurlUrl(cleanInput) ==
  LET m1 == QuotedFrom(cleanInput, "'", 1)
      m2 == QuotedFrom(cleanInput, "\"", 1)
  IN IF m1[1] # 0 THEN SubSeq(cleanInput, m1[1] + 1, m1[2] - 1)
     ELSE IF m2[1] # 0 THEN SubSeq(cleanInput, m2[1] + 1, m2[2] - 1)
     ELSE FallbackUrl

FetchTemplate(url) ==
  "fetch('" \o url
  \o "', {\n  method: 'GET',\n  headers: {\n    'Content-Type': 'application/json'\n  }\n}).then(res => res.json());"

\* the curl_fetch branch
CurlFetch(cleanInput) == FetchTemplate(CurlUrl(cleanInput))

\* one step of the reduce over the lines of the css_obj branch
CssLine(acc, line) ==
  LET parts == Split(line, ":")
      key == parts[1]
      hasVal == Len(parts) >= 2
      val == parts[2]
  IN IF key # "" /\ hasVal /\ val # ""
     THEN ObjSet(acc, CamelCase(Trim(key)),
                 ReplaceAll(ReplaceFirst(Trim(val), ";", ""), "'", "\\'"))
     ELSE acc

RECURSIVE CssReduce(_, _)
CssReduce(acc, lines) ==
  IF Len(lines) = 0 THEN acc ELSE CssReduce(CssLine(acc, Head(lines)), Tail(lines))

\* the object the css_obj branch builds
CssObject(cleanInput) == CssReduce(<<>>, Split(cleanInput, "\n"))

\* the css_obj branch
CssObj(cleanInput) == JsonStringify(CssObject(cleanInput))

\* String(n) for a natural number
RECURSIVE NatToStr(_)
NatToStr(n) ==
  IF n < 10 THEN CharAt(Digits, n + 1)
  ELSE NatToStr(n \div 10) \o CharAt(Digits, (n % 10) + 1)

\* Object.entries(v) as <<key, value>> pairs; it throws on null
ObjectEntries(v) ==
  CASE v.t = "object" -> v.m
    [] v.t = "array" -> [n \in 1..Len(v.m) |-> <<NatToStr(n - 1), v.m[n]>>]
    [] v.t = "string" -> [n \in 1..Len(v.txt) |-> <<NatToStr(n - 1), JStr(CharAt(v.txt, n))>>]
    [] OTHER -> <<>>

\* typeof v === 'number' ? 'Number' : 'String'
TypeBoxType(v) == IF v.t = "number" THEN "Number" ELSE "String"

\* the field list of the typebox branch
TypeBoxFields(entries) ==
  Join([n \in 1..Len(entries) |->
          "  " \o entries[n][1] \o ": Type." \o TypeBoxType(entries[n][2]) \o "()"], ",\n")

\* the typebox branch on a parsed value
TypeBox(parsed) ==
  "const T = Type.Object({\n" \o TypeBoxFields(ObjectEntries(parsed)) \o "\n})"

\* json-to-ts accepts an object or a non-empty array of objects and throws
\* on every other value
JsonToTSThrows(v) ==
  ~(\/ v.t = "object"
    \/ (v.t = "array" /\ Len(v.m) > 0 /\ \A n \in 1..Len(v.m) : v.m[n].t = "object"))

\* JsonToTS(v).join('\n\n') for an object whose members are numbers, strings
\* and booleans (one interface, one line per member in property order).
\* Nested shapes get further interfaces from the library; they are outside
\* the inputs of this model.
JsonToTS(v) ==
  "interface RootObject {\n"
  \o Join([n \in 1..Len(v.m) |-> "  " \o v.m[n][1] \o ": " \o v.m[n][2].t \o ";"], "\n")
  \o "\n}"

\* a fallback branch that leaves the id out of its comment line
FallbackNoId(id, cleanInput) == "// Converted:\n" \o cleanInput

\* the fallback branch
Fallback(id, cleanInput) == "// Converted " \o id \o ":\n" \o cleanInput

Threw == [threw |-> TRUE, result |-> ""]
Result(r) == [threw |-> FALSE, result |-> r]

\* a typescript branch that shows an empty result when JSON.parse throws
TypeScriptBranchSwallow(p) ==
  IF ~p.ok \/ JsonToTSThrows(p.v) THEN Result("") ELSE Result(JsonToTS(p.v))

\* the typescript branch on the outcome of JSON.parse
TypeScriptBranch(p) ==
  IF ~p.ok \/ JsonToTSThrows(p.v) THEN Threw ELSE Result(JsonToTS(p.v))

\* the typebox branch on the outcome of JSON.parse
TypeBoxBranch(p) ==
  IF ~p.ok \/ p.v.t = "null" THEN Threw ELSE Result(TypeBox(p.v))

\* the if-else chain of handleConvert on the trimmed input: the result, or
\* threw when an exception reaches the catch block
Convert(id, cleanInput) ==
  IF id = "typescript" THEN TypeScriptBranch(JsonParse(cleanInput))
  ELSE IF id = "css_obj" THEN Result(CssObj(cleanInput))
  ELSE IF id = "svg_tailwind" THEN Result(SvgTailwind(cleanInput))
  ELSE IF id = "curl_fetch" THEN Result(CurlFetch(cleanInput))
  ELSE IF id = "typebox" THEN TypeBoxBranch(JsonParse(cleanInput))
  ELSE IF id = "html_jsx" THEN Result(HtmlJsx(cleanInput))
  ELSE IF id = "jsx" THEN Result(SvgJsx(cleanInput))
  ELSE Result(Fallback(id, cleanInput))

(***************************************************************************)
(* The page: state, session, history store                                 *)
(***************************************************************************)
\* bounds of the model: rows the store holds, calls in flight at once
MaxRows == 1
MaxInflight == 2

\* .limit(15) of fetchHistory
HistoryLimit == 15

\* the User of the session: present is FALSE for null
NoUser == [present |-> FALSE, id |-> "", is_anonymous |-> FALSE]
AnonUser == [present |-> TRUE, id |-> "anon", is_anonymous |-> TRUE]
SignedIn(uid) == [present |-> TRUE, id |-> uid, is_anonymous |-> FALSE]
UserIds == {"u1", "u2"}
Accounts == {SignedIn(uid) : uid \in UserIds}

\* a row of the conversions table; id stands for id and created_at
Row(n, input, output, format, uid) ==
  [id |-> n, input_text |-> input, output_text |-> output, format_type |-> format,
   user_id |-> uid]
NoRow == Row(0, "", "", "", "")

\* a row stored by an earlier release, whose format_type is no longer in the menu
RetiredId == "xml_json"
StaleRow == Row(1, "<a>1</a>", "{\"a\": 1}", RetiredId, "u1")

\* the stores the page may find when it loads
InitialStores == {<<>>, <<StaleRow>>}

\* a pending asynchronous call: getSession, signInAnonymously, insert, select
Op(kind, usr, row) == [kind |-> kind, usr |-> usr, row |-> row]

\* the calls in flight are a bag: they answer in any order
Issue(ops, op) == ops (+) SetToBag({op})
Settle(ops, op) == ops (-) SetToBag({op})
Pending(kind) ==
  LET of == {op \in BagToSet(inflight) : op.kind = kind}
  IN BagCardinality([op \in of |-> inflight[op]])

\* ghost: the outcome of handleConvert when it was the last handler to run
Idle == "-"

initialId == categories[1].languages[1][1]

Init ==
  /\ targetLang = initialId
  /\ inputCode = PlaceholderInput(initialId)
  /\ outputCode = PlaceholderOutput(initialId)
  /\ history = <<>>
  /\ user = NoUser
  /\ db \in InitialStores
  /\ \E s \in {NoUser, AnonUser} \cup Accounts :
       inflight = SetToBag({Op("getSession", s, NoRow)})
  /\ last = Idle

\* .select('*').eq('user_id', userId).order('created_at', desc).limit(15)
RECURSIVE Select(_, _, _)
Select(rows, userId, limit) ==
  IF Len(rows) = 0 \/ limit = 0 THEN <<>>
  ELSE LET r == rows[Len(rows)]
           rest == SubSeq(rows, 1, Len(rows) - 1)
       IN IF r.user_id = userId
          THEN <<r>> \o Select(rest, userId, limit - 1)
          ELSE Select(rest, userId, limit)

\* fetchHistory(userId) up to its await: the select is sent
fetchHistory(ops, usr) == Issue(ops, Op("select", usr, NoRow))

handleLanguageChange(id) ==
  /\ targetLang' = id
  /\ IF id \in PlaceholderIds
     THEN inputCode' = PlaceholderInput(id) /\ outputCode' = PlaceholderOutput(id)
     ELSE UNCHANGED <<inputCode, outputCode>>
  /\ last' = Idle
  /\ UNCHANGED <<user, history, db, inflight>>

\* onChange of the input editor
setInputCode(v) ==
  /\ inputCode' = v
  /\ last' = Idle
  /\ UNCHANGED <<targetLang, outputCode, user, history, db, inflight>>

handleClear ==
  /\ inputCode' = ""
  /\ outputCode' = ""
  /\ last' = Idle
  /\ UNCHANGED <<targetLang, user, history, db, inflight>>

loadFromHistory(item) ==
  /\ inputCode' = item.input_text
  /\ outputCode' = item.output_text
  /\ targetLang' = item.format_type
  /\ last' = Idle
  /\ UNCHANGED <<user, history, db, inflight>>

\* setOutputCode(result) and, for a signed-in user, the insert
ShowAndSave(cleanInput, c, saves) ==
  IF c.threw
  THEN /\ last' = "Error"
       /\ UNCHANGED <<outputCode, inflight>>
  ELSE /\ saves => /\ Len(db) + Pending("insert") < MaxRows
                   /\ BagCardinality(inflight) < MaxInflight
       /\ outputCode' = c.result
       /\ inflight' = IF saves
                      THEN Issue(inflight, Op("insert", user,
                                              Row(0, cleanInput, c.result, targetLang, user.id)))
                      ELSE inflight
       /\ last' = "Ok"

\* a try block that saves for every session, anonymous ones included
TryConvertAnySession(cleanInput) ==
  IF cleanInput = ""
  THEN /\ last' = "EmptyInput"
       /\ UNCHANGED <<outputCode, inflight>>
  ELSE ShowAndSave(cleanInput, Convert(targetLang, cleanInput), user.present)

\* the try block on the trimmed input
TryConvert(cleanInput) ==
  IF cleanInput = ""
  THEN /\ last' = "EmptyInput"
       /\ UNCHANGED <<outputCode, inflight>>
  ELSE ShowAndSave(cleanInput, Convert(targetLang, cleanInput),
                   user.present /\ ~user.is_anonymous)

\* handleConvert up to its first await
handleConvert ==
  /\ TryConvert(Trim(inputCode))
  /\ UNCHANGED <<targetLang, inputCode, user, history, db>>

\* the insert answers: handleConvert resumes after its await
InsertDone(op) ==
  /\ op.kind = "insert"
  /\ \E saveError \in BOOLEAN :
       IF saveError
       THEN /\ inflight' = Settle(inflight, op)
            /\ UNCHANGED db
       ELSE /\ db' = Append(db, [op.row EXCEPT !.id = Len(db) + 1])
            /\ inflight' = fetchHistory(Settle(inflight, op), op.usr)
  /\ last' = Idle
  /\ UNCHANGED <<targetLang, inputCode, outputCode, user, history>>

\* the select answers: fetchHistory resumes after its await
SelectDone(op) ==
  /\ op.kind = "select"
  /\ \E dbError \in BOOLEAN :
       IF dbError
       THEN UNCHANGED history
       ELSE history' = Select(db, op.usr.id, HistoryLimit)
  /\ inflight' = Settle(inflight, op)
  /\ last' = Idle
  /\ UNCHANGED <<targetLang, inputCode, outputCode, user, db>>

\* getSession answers: initSession resumes after its await
GetSessionDone(op) ==
  LET currentUser == op.usr
      rest == Settle(inflight, op)
  IN /\ op.kind = "getSession"
     /\ user' = currentUser
     /\ inflight' = IF ~currentUser.present
                    THEN Issue(rest, Op("signInAnonymously", NoUser, NoRow))
                    ELSE IF ~currentUser.is_anonymous THEN fetchHistory(rest, currentUser)
                    ELSE rest
     /\ last' = Idle
     /\ UNCHANGED <<targetLang, inputCode, outputCode, history, db>>

\* the callback given to onAuthStateChange
onAuthStateChange(newUser, ops) ==
  /\ user' = newUser
  /\ IF newUser.present /\ ~newUser.is_anonymous
     THEN inflight' = fetchHistory(ops, newUser) /\ UNCHANGED history
     ELSE inflight' = ops /\ history' = <<>>
  /\ last' = Idle
  /\ UNCHANGED <<targetLang, inputCode, outputCode, db>>

\* signInAnonymously answers: the session becomes an anonymous one, or the
\* call fails and no auth event follows
AnonSignInDone(op) ==
  /\ op.kind = "signInAnonymously"
  /\ \E error \in BOOLEAN :
       IF error
       THEN /\ inflight' = Settle(inflight, op)
            /\ last' = Idle
            /\ UNCHANGED <<targetLang, inputCode, outputCode, user, history, db>>
       ELSE onAuthStateChange(AnonUser, Settle(inflight, op))

\* signInWithOAuth completes (the buttons shown without a user or with an
\* anonymous one), or signOut (the button shown to a signed-in user)
AuthEvent(newUser) ==
  /\ Pending("getSession") = 0
  /\ Pending("signInAnonymously") = 0
  /\ BagCardinality(inflight) < MaxInflight
  /\ IF newUser.present
     THEN ~user.present \/ user.is_anonymous
     ELSE user.present /\ ~user.is_anonymous
  /\ onAuthStateChange(newUser, inflight)

\* the menu entries picked and the texts typed in the page specification
Picked == {"typescript", "typebox"}
TypedInputs == {" \n\t", "not json"}

Next ==
  \/ \E id \in Picked : handleLanguageChange(id)
  \/ \E v \in TypedInputs : setInputCode(v)
  \/ handleClear
  \/ \E n \in 1..Len(history) : loadFromHistory(history[n])
  \/ handleConvert
  \/ \E op \in BagToSet(inflight) : InsertDone(op)
  \/ \E op \in BagToSet(inflight) : SelectDone(op)
  \/ \E op \in BagToSet(inflight) : GetSessionDone(op)
  \/ \E op \in BagToSet(inflight) : AnonSignInDone(op)
  \/ \E u \in {NoUser} \cup Accounts : AuthEvent(u)

Spec == Init /\ [][Next]_vars

(***************************************************************************)
(* The menu and the history list alone: every menu entry, no conversion    *)
(***************************************************************************)
NextMenu ==
  \/ \E id \in MenuIds : handleLanguageChange(id)
  \/ \E n \in 1..Len(history) : loadFromHistory(history[n])
  \/ \E op \in BagToSet(inflight) : SelectDone(op)
  \/ \E op \in BagToSet(inflight) : GetSessionDone(op)
  \/ \E op \in BagToSet(inflight) : AnonSignInDone(op)
  \/ \E u \in {NoUser} \cup Accounts : AuthEvent(u)

SpecMenu == Init /\ [][NextMenu]_vars

(***************************************************************************)
(* handleConvert from every page state it can be called in: any entry of   *)
(* the menu or a retired one, a typed text, an output on display, a        *)
(* session, and nothing in flight                                          *)
(***************************************************************************)
BlankInputs == {"", " ", " \n\t ", "\r\n"}
ConvertInputs ==
  BlankInputs \cup {"not json", "{\"a\": 1,}", "{\"a\": 1, \"b\": \"x\"}", "  query { a }\n"}

InitConvert ==
  /\ targetLang \in MenuIds \cup {RetiredId}
  /\ inputCode \in ConvertInputs
  /\ outputCode \in {"", PlaceholderOutput(initialId)}
  /\ user \in {NoUser, AnonUser, SignedIn("u1")}
  /\ history = <<>>
  /\ db \in InitialStores
  /\ inflight = EmptyBag
  /\ last = Idle

NextConvert ==
  \/ handleConvert
  \/ \E op \in BagToSet(inflight) : InsertDone(op)
  \/ \E op \in BagToSet(inflight) : SelectDone(op)

SpecConvert == InitConvert /\ [][NextConvert]_vars

(***************************************************************************)
(* The conversions alone: an id is picked, a text is typed, nobody is      *)
(* signed in and handleConvert runs                                        *)
(***************************************************************************)
\* bounds of the typed texts: attributes of a tag, members of a JSON
\* object, lines of a style sheet, arguments of a curl command
MaxFrags == 3
MaxMembers == 2
MaxLines == 2
MaxArgs == 3

SeqsUpTo(S, n) == UNION {[1..k -> S] : k \in 0..n}

InitEngine(ids, texts) ==
  /\ targetLang \in ids
  /\ inputCode \in texts
  /\ outputCode = ""
  /\ user = NoUser
  /\ history = <<>>
  /\ db = <<>>
  /\ inflight = EmptyBag
  /\ last = Idle

NextEngine == handleConvert

\* markup: a tag opener, attributes and a closer, separated by one space
MarkupFragments ==
  {"<svg", ">", "width=\"24\"", "height=\"24\"", "stroke=\"#000\"", "fill=\"red\"",
   "stroke-width=\"2\"", "stroke-linecap=\"round\"", "class=\"a\"", "for=\"b\"",
   "subclass=\"c\"", "style=\"margin-top:1px\""}
MarkupIds == {"jsx", "svg_tailwind", "html_jsx"}
MarkupText(fs) == " " \o Join(fs, " ") \o "\n"
MarkupTexts ==
  {MarkupText(fs) : fs \in SeqsUpTo(MarkupFragments, MaxFrags)}
  \cup {PlaceholderInput(id) : id \in MarkupIds}

InitMarkup == InitEngine(MarkupIds, MarkupTexts)
SpecMarkup == InitMarkup /\ [][NextEngine]_vars

\* JSON: an object of distinct keys with number and string values
JsonKeys == {"id", "name", "2", "1"}
JsonValues == {"1", "\"x\""}
JsonMember(m) == "\"" \o m[1] \o "\":" \o m[2]
JsonText(ms) == "{" \o Join([n \in 1..Len(ms) |-> JsonMember(ms[n])], ",") \o "}"
JsonDocs ==
  {ms \in SeqsUpTo(JsonKeys \X JsonValues, MaxMembers) :
     \A a, b \in 1..Len(ms) : ms[a][1] = ms[b][1] => a = b}
SchemaIds == {"zod", "typebox", "mongoose", "sql"}

InitJson == InitEngine(SchemaIds, {JsonText(ms) : ms \in JsonDocs})
SpecJson == InitJson /\ [][NextEngine]_vars

\* CSS: declarations and malformed lines, one per line
CssLines ==
  {"color: red;", "margin-top: 20px;", "background: url(http://x.test/a.png);",
   "font: a;b;", "-webkit-box-flex: 1", "nocolon", ": red;", "color:"}
CssTexts == {Join(ls, "\n") : ls \in SeqsUpTo(CssLines, MaxLines)}

InitCss == InitEngine({"css_obj"}, CssTexts)
SpecCss == InitCss /\ [][NextEngine]_vars

\* curl: the command word, flags, quoted and bare arguments
CurlArgs ==
  {"curl", "-H", "-X", "POST", "'https://x.test/y'", "\"https://x.test/z\"",
   "'Accept: a'", "https://x.test/bare", "''"}
CurlTexts == {Join(as, " ") : as \in SeqsUpTo(CurlArgs, MaxArgs)}

InitCurl == InitEngine({"curl_fetch"}, CurlTexts)
SpecCurl == InitCurl /\ [][NextEngine]_vars


(***************************************************************************)
(* Claims                                                                  *)
(***************************************************************************)
\* the text holds nothing but white space
IsBlank(s) == \A k \in 1..Len(s) : CharAt(s, k) \in WhiteSpace

\* the step is a run of handleConvert
ConvertRan == last' # Idle

\* nothing on display, in flight or stored changes in the step
NothingShownOrSaved ==
  /\ outputCode' = outputCode
  /\ inflight' = inflight
  /\ db' = db
  /\ history' = history

\* C1: for every conversion id, handleConvert on an empty or white-space-only
\* input ends as EmptyInput (neither a caught exception nor a result), leaves
\* the output on display as it was and sends no insert.
C1_EmptyInputNoOp ==
  [][(ConvertRan /\ IsBlank(inputCode)) => (last' = "EmptyInput" /\ NothingShownOrSaved)]_vars

\* C1 witness: a signed-in user ran a conversion of a retired id on a blank
\* input while an output was on display
C1_Witness ==
  /\ last = "EmptyInput"
  /\ targetLang = RetiredId
  /\ inputCode = " \n\t "
  /\ outputCode = PlaceholderOutput(initialId)
  /\ user = SignedIn("u1")

\* C2: for typescript and typebox, handleConvert on a text that is not
\* valid JSON ends in the catch block: the output on display stays as it was
\* and no insert is sent.
C2_ParseErrorNoOp ==
  [][(/\ ConvertRan
      /\ targetLang \in {"typescript", "typebox"}
      /\ ~IsBlank(inputCode)
      /\ ~JsonParse(Trim(inputCode)).ok)
     => (last' = "Error" /\ NothingShownOrSaved)]_vars

\* C2 witness: a signed-in user ran typescript on "not json" while the
\* placeholder output was on display
C2_Witness ==
  /\ last = "Error"
  /\ targetLang = "typescript"
  /\ inputCode = "not json"
  /\ outputCode = PlaceholderOutput("typescript")
  /\ user \in Accounts

\* the menu entries with the id
Registered(id) ==
  {<<c, l>> \in (1..Len(categories)) \X (1..7) :
     l <= Len(categories[c].languages) /\ categories[c].languages[l][1] = id}

\* C3: the lookup of the current id always returns a category and a label:
\* those of the menu entry with that id, or, when the menu has no such id,
\* those of the first entry of the first category.
C3_LookupTotal ==
  /\ Registered(targetLang) # {} =>
       \A e \in Registered(targetLang) :
         getCurrentConversionInfo =
           [category |-> categories[e[1]].name, label |-> categories[e[1]].languages[e[2]][2]]
  /\ Registered(targetLang) = {} =>
       getCurrentConversionInfo = [category |-> "SVG", label |-> "to JSX"]

\* C3 witness: a history entry with a retired format_type was loaded
C3_Witness ==
  /\ targetLang = RetiredId
  /\ inputCode = StaleRow.input_text
  /\ getCurrentConversionInfo = [category |-> "SVG", label |-> "to JSX"]

\* the space-separated pieces of the trimmed input
Pieces(s) == Split(Trim(s), " ")

\* the conversion of the id ran on a text built from markup fragments
MarkupRan(id) ==
  /\ last = "Ok"
  /\ targetLang = id
  /\ \A n \in 1..Len(Pieces(inputCode)) : Pieces(inputCode)[n] \in MarkupFragments

\* the members of a one-line JSON object text, as written
WrittenMembers(s) == Split(SubSeq(s, 2, Len(s) - 1), ",")
WrittenKey(m) == SubSeq(Split(m, ":")[1], 2, Len(Split(m, ":")[1]) - 1)
WrittenNumber(m) == IsDigit(CharAt(Split(m, ":")[2], 1))

\* the field a schema generator is to emit for a key
ExpectedField(id, k, isNum) ==
  CASE id = "zod" -> "  " \o k \o ": z." \o (IF isNum THEN "number" ELSE "string") \o "()"
    [] id = "typebox" -> "  " \o k \o ": Type." \o (IF isNum THEN "Number" ELSE "String") \o "()"
    [] id = "mongoose" -> "  " \o k \o ": " \o (IF isNum THEN "Number" ELSE "String")
    [] id = "sql" -> "  " \o k \o " " \o (IF isNum THEN "INT" ELSE "VARCHAR(255)")

ExpectedFields(id, ms) ==
  Join([n \in 1..Len(ms) |-> ExpectedField(id, WrittenKey(ms[n]), WrittenNumber(ms[n]))], ",\n")

\* C4: for a JSON object of number and string values, each of zod, typebox,
\* mongoose and sql shows one field per key, typed by the value, in the
\* order the keys are written in the input.
C4_SchemaFieldsInInputOrder ==
  (/\ targetLang \in SchemaIds
   /\ last # Idle
   /\ inputCode # "{}")
  => (/\ last = "Ok"
      /\ Contains(outputCode, ExpectedFields(targetLang, WrittenMembers(inputCode))))

\* the declaration of a line split at its first ':' only
FirstColon(line) == IndexFrom(line, ":", 1)
DeclName(line) == Trim(SubSeq(line, 1, FirstColon(line) - 1))
DeclRest(line) == Trim(Suffix(line, FirstColon(line) + 1))
DeclValue(line) ==
  IF DeclRest(line) # "" /\ CharAt(DeclRest(line), Len(DeclRest(line))) = ";"
  THEN Trim(SubSeq(DeclRest(line), 1, Len(DeclRest(line)) - 1))
  ELSE DeclRest(line)

ExpectedCssLine(acc, line) ==
  IF FirstColon(line) = 0 \/ DeclName(line) = "" \/ DeclValue(line) = "" THEN acc
  ELSE ObjSet(acc, CamelCase(DeclName(line)), DeclValue(line))

RECURSIVE ExpectedCss(_, _)
ExpectedCss(acc, lines) ==
  IF Len(lines) = 0 THEN acc
  ELSE ExpectedCss(ExpectedCssLine(acc, Head(lines)), Tail(lines))

\* C5: css_obj splits every line at its first ':' only and maps the
\* camelCased name to the whole remainder without its trailing ';', in line
\* order; lines without a name or a value are skipped and nothing fails.
C5_CssSplitAtFirstColon ==
  (targetLang = "css_obj" /\ last # Idle /\ ~IsBlank(inputCode))
  => (/\ last = "Ok"
      /\ outputCode = JsonStringify(ExpectedCss(<<>>, Split(Trim(inputCode), "\n"))))

\* a piece with its class or for attribute renamed, every other piece as it is
RenamedPiece(f) ==
  CASE f = "class=\"a\"" -> "className=\"a\""
    [] f = "for=\"b\"" -> "htmlFor=\"b\""
    [] OTHER -> f

\* C6: for html_jsx (on a text without style attributes) the output is the
\* trimmed input with the class attribute renamed to className and the for
\* attribute to htmlFor; every other part, attribute names that end in
\* class or for included, is unchanged.
C6_HtmlJsxRenamesOnlyClassAndFor ==
  (MarkupRan("html_jsx") /\ ~Contains(inputCode, "style="))
  => outputCode = Join([n \in 1..Len(Pieces(inputCode)) |-> RenamedPiece(Pieces(inputCode)[n])], " ")

\* the content of the quoted token that starts first, or the placeholder URL
EarliestQuoted(s, m1, m2) ==
  IF m1[1] = 0 /\ m2[1] = 0 THEN FallbackUrl
  ELSE IF m2[1] = 0 \/ (m1[1] # 0 /\ m1[1] < m2[1]) THEN SubSeq(s, m1[1] + 1, m1[2] - 1)
  ELSE SubSeq(s, m2[1] + 1, m2[2] - 1)

\* C7: curl_fetch embeds the content of the quoted token, single- or
\* double-quoted, that occurs earliest in the input, or the placeholder URL
\* when there is none; method and header are fixed.
C7_CurlEarliestQuotedToken ==
  (targetLang = "curl_fetch" /\ last = "Ok")
  => outputCode =
       FetchTemplate(EarliestQuoted(Trim(inputCode),
                                    QuotedFrom(Trim(inputCode), "'", 1),
                                    QuotedFrom(Trim(inputCode), "\"", 1)))

IconHead == "export const Icon = ({ className = \"w-6 h-6\" }) => (\n  "
IconComponentHead == "export const IconComponent = (props) => (\n  "
TemplateTail == "\n);"

Wrapped(out, head) ==
  /\ Len(out) >= Len(head) + Len(TemplateTail)
  /\ SubSeq(out, 1, Len(head)) = head
  /\ Suffix(out, Len(out) - Len(TemplateTail) + 1) = TemplateTail

HasPiece(s, f) == \E n \in 1..Len(Pieces(s)) : Pieces(s)[n] = f
NoPieceTwice(s) ==
  \A a, b \in 1..Len(Pieces(s)) : Pieces(s)[a] = Pieces(s)[b] => a = b

\* C8: for svg_tailwind on an <svg tag whose attributes are all different,
\* the width and height attributes are gone and className={className} is in
\* their place, a stroke or fill attribute reads currentColor or none, the
\* longer names stroke-width and stroke-linecap keep their values under the
\* camelCase names, and the result is wrapped in the Icon template.
C8_SvgTailwindGenuineAttributes ==
  (/\ MarkupRan("svg_tailwind")
   /\ Pieces(inputCode)[1] = "<svg"
   /\ NoPieceTwice(inputCode))
  => (/\ Wrapped(outputCode, IconHead)
      /\ HasPiece(inputCode, "width=\"24\"") =>
           (/\ Contains(outputCode, "className={className}")
            /\ ~Contains(outputCode, " width=\"24\""))
      /\ HasPiece(inputCode, "height=\"24\"") => ~Contains(outputCode, "height=")
      /\ HasPiece(inputCode, "stroke=\"#000\"") => Contains(outputCode, " stroke=\"currentColor\"")
      /\ HasPiece(inputCode, "fill=\"red\"") => Contains(outputCode, " fill=\"none\"")
      /\ HasPiece(inputCode, "stroke-width=\"2\"") => Contains(outputCode, " strokeWidth=\"2\"")
      /\ HasPiece(inputCode, "stroke-linecap=\"round\"") =>
           Contains(outputCode, " strokeLinecap=\"round\""))

HyphenatedNames ==
  {<<"stroke-width=", "strokeWidth=">>, <<"stroke-linecap=", "strokeLinecap=">>,
   <<"stroke-linejoin=", "strokeLinejoin=">>}

\* C9: for jsx the attributes stroke-width, stroke-linecap and
\* stroke-linejoin of the input are in the output under their camelCase
\* names, and the result is wrapped in the IconComponent template with
\* props spread onto the <svg element.
C9_SvgJsxCamelCasesStrokeAttributes ==
  (targetLang = "jsx" /\ last = "Ok")
  => (/\ Wrapped(outputCode, IconComponentHead)
      /\ Contains(inputCode, "<svg") => Contains(outputCode, "<svg {...props}")
      /\ \A h \in HyphenatedNames :
           Contains(inputCode, h[1]) =>
             (Contains(outputCode, h[2]) /\ ~Contains(outputCode, h[1])))

Min(a, b) == IF a < b THEN a ELSE b
Max(a, b) == IF a > b THEN a ELSE b

\* one occurrence of p fewer in the output than in the input
OneRewritten(p) ==
  CountOcc(outputCode, p) = Max(CountOcc(inputCode, p) - 1, 0)

\* no occurrence of p left in the output, each one turned into r
AllRewritten(p, r) ==
  /\ CountOcc(outputCode, p) = 0
  /\ CountOcc(outputCode, r) = CountOcc(inputCode, p)

\* the patterns of the markup rewrites, as texts that end a match
RewritePatterns(id) ==
  IF id = "svg_tailwind"
  THEN {"height=\"24\"", "stroke=\"#000\"", "fill=\"red\"",
        "stroke-width=", "stroke-linecap=", "stroke-linejoin="}
  ELSE {"class=", "for=", "style=\""}

BranchIds == {"typescript", "css_obj", "svg_tailwind", "curl_fetch", "typebox", "html_jsx", "jsx"}

\* C11: for every id without a branch of its own (menu entries such as
\* jsdoc and graphql, ids the menu does not know), handleConvert on a
\* non-blank input never ends in the catch block: it shows the trimmed
\* input behind a comment line that names the id.
C11_FallbackNeverFails ==
  [][(ConvertRan /\ targetLang \notin BranchIds /\ ~IsBlank(inputCode))
     => (/\ last' = "Ok"
         /\ outputCode' = "// Converted " \o targetLang \o ":\n" \o Trim(inputCode))]_vars

\* C11 witness: the retired id ran on a padded text and shows it trimmed
\* behind the comment line
C11_Witness ==
  /\ last = "Ok"
  /\ targetLang = RetiredId
  /\ inputCode = "  query { a }\n"
  /\ outputCode = "// Converted xml_json:\nquery { a }"

\* the calls of a kind in a bag of calls in flight
CountKind(ops, kind) ==
  LET of == {op \in BagToSet(ops) : op.kind = kind}
  IN BagCardinality([op \in of |-> ops[op]])

\* the insert calls the step sends
InsertsSent ==
  {op \in BagToSet(inflight') :
     op.kind = "insert" /\ CopiesIn(op, inflight') > CopiesIn(op, inflight)}

\* the step stores the row of an insert in flight, under the next id
StoresPendingInsert ==
  \E op \in BagToSet(inflight) :
    /\ op.kind = "insert"
    /\ CopiesIn(op, inflight') = CopiesIn(op, inflight) - 1
    /\ db' = Append(db, [op.row EXCEPT !.id = Len(db) + 1])

\* C12: an insert is sent only by a handleConvert that showed a result for
\* a signed-in, non-anonymous user, and carries the trimmed input, the
\* result shown, the id and the user's id; the store changes only by
\* taking in the row of such an insert; an empty or failed conversion, or
\* one without a user or with an anonymous one, sends and stores nothing;
\* apart from session changes, a select is sent only in the step in which
\* an insert succeeded.
C12_PersistOnlySignedInSuccess ==
  [][/\ \A op \in InsertsSent :
          /\ last' = "Ok"
          /\ user.present /\ ~user.is_anonymous
          /\ ~Convert(targetLang, Trim(inputCode)).threw
          /\ outputCode' = Convert(targetLang, Trim(inputCode)).result
          /\ op.row = Row(0, Trim(inputCode), outputCode', targetLang, user.id)
          /\ op.usr = user
     /\ db' # db => StoresPendingInsert
     /\ (ConvertRan /\ (last' # "Ok" \/ ~user.present \/ user.is_anonymous))
          => (inflight' = inflight /\ db' = db)
     /\ (CountKind(inflight', "select") > CountKind(inflight, "select") /\ user' = user)
          => (db' # db /\ StoresPendingInsert)]_vars

\* C12 witness: the typescript conversion of a signed-in user is stored
\* under the user's id and is in the reloaded history
C12_Witness ==
  /\ Len(db) = 1
  /\ db[1] = Row(1, PlaceholderInput("typescript"), PlaceholderOutput("typescript"),
                 "typescript", "u2")
  /\ history = db
  /\ user = SignedIn("u2")

\* C13: whenever the session user is absent or anonymous the history on
\* display is empty, and whenever a user is signed in the history on
\* display holds only rows of that user.
C13_HistoryMatchesSession ==
  /\ (~user.present \/ user.is_anonymous) => history = <<>>
  /\ (user.present /\ ~user.is_anonymous) =>
       \A n \in 1..Len(history) : history[n].user_id = user.id
====
